---------------------------- MODULE Spec2Model ----------------------------
(***************************************************************************)
(* A model of the AMR fleet simulation core of src/amr_dashboard.py:       *)
(* Robot, TaskScheduler and AMRFleetManager, with the three commands the   *)
(* dashboard and the control panel issue on them (emergency stop, charge   *)
(* all, speed change).                                                     *)
(*                                                                         *)
(* Numbers.  The program computes in floats; the model computes in exact   *)
(* fixed point, so that nothing is rounded:                                *)
(*   positions and distances   in 1/100 of a distance unit                 *)
(*   battery levels            in 1/1000 of a battery unit                 *)
(*   speeds                    in 1/10 of a distance unit per second       *)
(*   dt                        in 1/10 of a second                         *)
(* speed * dt is then a distance in 1/100 units, and a distance times the  *)
(* drain rate 0.1 is a battery amount in 1/1000 units, with no division.   *)
(* The positions the model draws lie on the line y = 5, where the two      *)
(* charging stations (5,5) and (45,5) lie, so every distance a robot moves *)
(* along is an integer and the unit vector is exact.                       *)
(*                                                                         *)
(* Objects.  A Task object is its index in `tasks` (the heap of every Task *)
(* ever created); pending_tasks and Robot.current_task hold such indices,  *)
(* as the Python lists and attributes hold references.  None is <<>> for   *)
(* an optional Position and 0 for an optional Task.                        *)
(*                                                                         *)
(* Specifications.  Spec is the whole core: a fleet manager, robots and    *)
(* tasks added to it, ticks and the three commands.  SpecTicking is Spec   *)
(* until the commands stop, and from then on the animation timer alone,    *)
(* which calls update_fleet on every frame for ever.  SpecSched drives a   *)
(* TaskScheduler alone through its two methods, with more tasks than Spec  *)
(* can afford.  SpecMove steps one robot with move_towards_target toward a *)
(* fixed target.  SpecAnyDt is Spec with one last update_fleet call whose  *)
(* dt is not positive.  SpecTrip ticks a fleet of one robot, one pending   *)
(* task, and counts the ticks.  `probe` is what a specification records    *)
(* beside the program's state: the inputs and call count of SpecMove and   *)
(* SpecTrip, the frame parity of SpecTicking, the dt of SpecAnyDt, None    *)
(* elsewhere.                                                              *)
(***************************************************************************)
EXTENDS Integers, Sequences, FiniteSets, TLC

VARIABLES robots, tasks, pending_tasks, total_tasks_completed, fleet_efficiency,
          probe

vars == <<robots, tasks, pending_tasks, total_tasks_completed, fleet_efficiency,
          probe>>

-----------------------------------------------------------------------------
(* Bounds of the model *)

MaxRobots == 2
MaxTasks == 2
MaxSchedTasks == 4
MaxMoveSteps == 22
MaxTripTicks == 24

(* Program constants, in the model's units *)

LOW_BATTERY == 5000
MIN_ASSIGN_BATTERY == 20000
ARRIVAL_TOLERANCE == 50
DEFAULT_SPEED == 20
CHARGE_ALL_THRESHOLD == 90000
PENALTY_REFERENCE == 100000
CHARGE_PER_DT == 2000

None == <<>>
NoTask == 0

Pos(x, y) == <<x * 100, y * 100>>

charging_stations == <<Pos(5, 5), Pos(45, 5), Pos(25, 25)>>

(* Inputs the operations are called with *)

RobotKinds == {<<Pos(5, 5), 100000>>, <<Pos(45, 5), 25000>>}
TaskKinds == {<<Pos(45, 5), Pos(5, 5)>>, <<Pos(5, 5), Pos(205, 5)>>}
Priorities == {1, 2}
DtSet == {200}
SliderVals == {10, 30}

-----------------------------------------------------------------------------
(* Arithmetic *)

Abs(a) == IF a < 0 THEN 0 - a ELSE a
Min(a, b) == IF a < b THEN a ELSE b
Max(a, b) == IF a > b THEN a ELSE b

(* a / b rounded toward zero, b > 0 *)
Quot(a, b) == IF a < 0 THEN 0 - ((0 - a) \div b) ELSE a \div b

RECURSIVE SqrtBetween(_, _, _)
SqrtBetween(n, lo, hi) ==
    IF lo >= hi THEN lo
    ELSE LET mid == (lo + hi + 1) \div 2
         IN  IF mid * mid <= n THEN SqrtBetween(n, mid, hi)
                               ELSE SqrtBetween(n, lo, mid - 1)

(* Position.distance_to: the Euclidean norm; exact when the two points share a
   coordinate, the floor of the square root otherwise. *)
distance_to(p, q) ==
    LET dx == Abs(p[1] - q[1])
        dy == Abs(p[2] - q[2])
    IN  IF dy = 0 THEN dx
        ELSE IF dx = 0 THEN dy
        ELSE SqrtBetween(dx * dx + dy * dy, 0, dx + dy)

-----------------------------------------------------------------------------
(* Robot *)

(* Robot.__init__ *)
NewRobot(initial_pos, max_battery) ==
    [position |-> initial_pos,
     status |-> "idle",
     battery_level |-> max_battery,
     max_battery |-> max_battery,
     speed |-> DEFAULT_SPEED,
     current_task |-> NoTask,
     total_distance_traveled |-> 0,
     tasks_completed |-> 0,
     target_position |-> None]

(* move_distance = min(self.speed * dt, distance) *)
MoveDistanceUncapped(speed, dt, distance) == speed * dt

MoveDistance(speed, dt, distance) == Min(speed * dt, distance)

(* max(0, self.battery_level - move_distance * 0.1) *)
Drained(battery_level, move_distance) == Max(0, battery_level - move_distance)

(* A refusal that lets a battery of exactly 5 through *)
RefusesBelow(r) == r.battery_level < LOW_BATTERY

(* self.battery_level <= 5 *)
Refuses(r) == r.battery_level <= LOW_BATTERY

(* Robot.move_towards_target: the robot after the call, and the value returned *)
move_towards_target(r, target, dt) ==
    IF Refuses(r)
    THEN [robot |-> [r EXCEPT !.status = "charging"], arrived |-> FALSE]
    ELSE LET distance == distance_to(r.position, target)
         IN  IF distance < ARRIVAL_TOLERANCE
             THEN [robot |-> [r EXCEPT !.position = target], arrived |-> TRUE]
             ELSE LET move_distance == MoveDistance(r.speed, dt, distance)
                      step_x == Quot((target[1] - r.position[1]) * move_distance, distance)
                      step_y == Quot((target[2] - r.position[2]) * move_distance, distance)
                  IN  [robot |->
                          [r EXCEPT
                             !.position = <<r.position[1] + step_x, r.position[2] + step_y>>,
                             !.total_distance_traveled = @ + move_distance,
                             !.battery_level = Drained(@, move_distance)],
                       arrived |-> FALSE]

(* An assignment that sends the robot straight to the task's end *)
assign_task_to_end(r, t) ==
    [r EXCEPT !.current_task = t,
              !.status = "moving",
              !.target_position = tasks[t].end_pos]

(* Robot.assign_task, the robot's side *)
assign_task(r, t) ==
    [r EXCEPT !.current_task = t,
              !.status = "moving",
              !.target_position = tasks[t].start_pos]

(* A completion that leaves the target behind *)
complete_keeping_target(r) ==
    IF r.current_task # NoTask
    THEN [r EXCEPT !.tasks_completed = @ + 1,
                   !.current_task = NoTask,
                   !.status = "idle"]
    ELSE r

(* Robot.complete_current_task *)
complete_current_task(r) ==
    IF r.current_task # NoTask
    THEN [r EXCEPT !.tasks_completed = @ + 1,
                   !.current_task = NoTask,
                   !.status = "idle",
                   !.target_position = None]
    ELSE r

-----------------------------------------------------------------------------
(* Task *)

(* Task.__init__ (the dataclass): assigned_robot defaults to None, written 0 *)
NewTask(start_pos, end_pos, priority) ==
    [start_pos |-> start_pos,
     end_pos |-> end_pos,
     priority |-> priority,
     assigned_robot |-> 0]

-----------------------------------------------------------------------------
(* TaskScheduler *)

(* An insertion that puts t before the elements of its own priority *)
InsertUnstable(sorted, t, ts) ==
    LET n == Cardinality({i \in 1..Len(sorted) :
                            ts[sorted[i]].priority > ts[t].priority})
    IN  SubSeq(sorted, 1, n) \o <<t>> \o SubSeq(sorted, n + 1, Len(sorted))

(* One insertion of list.sort(key=priority, reverse=True): t goes behind every
   element whose priority is at least its own (the sort is stable, and reverse
   keeps the order of equal keys). *)
InsertStable(sorted, t, ts) ==
    LET n == Cardinality({i \in 1..Len(sorted) :
                            ts[sorted[i]].priority >= ts[t].priority})
    IN  SubSeq(sorted, 1, n) \o <<t>> \o SubSeq(sorted, n + 1, Len(sorted))

RECURSIVE SortByPriority(_, _)
SortByPriority(s, ts) ==
    IF s = <<>> THEN <<>>
    ELSE InsertStable(SortByPriority(SubSeq(s, 1, Len(s) - 1), ts), s[Len(s)], ts)

(* A score that forgets the battery penalty *)
ScoreDistanceOnly(r, tk) == distance_to(r.position, tk.start_pos) * 100

(* The score of a (robot, task) pair, in 1/10000 of a unit *)
Score(r, tk) ==
    distance_to(r.position, tk.start_pos) * 100 + (PENALTY_REFERENCE - r.battery_level)

(* Whether the scan replaces its best pair: score < best_score, where
   best_score starts at float('inf') (best = None) *)
Improves(score, best) == best = None \/ score < best[3]

(* The nested loops of assign_optimal_robot, pair k of the Len(pending) *
   Len(avail) pairs in iteration order; best is None or <<robot, task, score>> *)
RECURSIVE Scan(_, _, _, _, _)
Scan(k, best, pending, avail, rs) ==
    IF k >= Len(pending) * Len(avail) THEN best
    ELSE LET t == pending[(k \div Len(avail)) + 1]
             i == avail[(k % Len(avail)) + 1]
             score == Score(rs[i], tasks[t])
         IN  Scan(k + 1,
                  IF Improves(score, best) THEN <<i, t, score>> ELSE best,
                  pending, avail, rs)

(* A removal that removes nothing *)
RemoveNothing(s, t) == s

(* A removal that also drops what stands before t *)
RemoveThrough(s, t) ==
    LET at == {i \in 1..Len(s) : s[i] = t}
    IN  IF at = {} THEN s
        ELSE SubSeq(s, (CHOOSE i \in at : \A j \in at : i <= j) + 1, Len(s))

(* s without its first element equal to t (list.remove) *)
Remove(s, t) ==
    LET at == {i \in 1..Len(s) : s[i] = t}
    IN  IF at = {} THEN s
        ELSE LET f == CHOOSE i \in at : \A j \in at : i <= j
             IN  SubSeq(s, 1, f - 1) \o SubSeq(s, f + 1, Len(s))

(* A filter that asks for a battery above 5 only *)
IsAvailableAboveLow(r) == r.status = "idle" /\ r.battery_level > LOW_BATTERY

(* A filter that forgets the battery *)
IsAvailableAnyBattery(r) == r.status = "idle"

(* r.status == RobotStatus.IDLE and r.battery_level > 20 *)
IsAvailable(r) == r.status = "idle" /\ r.battery_level > MIN_ASSIGN_BATTERY

(* The indices of the robots the scheduler may pick, in list order *)
RECURSIVE AvailableUpTo(_, _)
AvailableUpTo(n, rs) ==
    IF n = 0 THEN <<>>
    ELSE LET rest == AvailableUpTo(n - 1, rs)
         IN  IF IsAvailable(rs[n]) THEN Append(rest, n) ELSE rest

available_robots(rs) == AvailableUpTo(Len(rs), rs)

(* TaskScheduler.assign_optimal_robot: the value returned (None or <<robot,
   task>>) and the pending list it leaves *)
assign_optimal_robot(pending, rs) ==
    IF pending = <<>> THEN [result |-> None, pending |-> pending]
    ELSE LET avail == available_robots(rs)
         IN  IF avail = <<>> THEN [result |-> None, pending |-> pending]
             ELSE LET best == Scan(0, None, pending, avail, rs)
                  IN  IF best # None
                      THEN [result |-> <<best[1], best[2]>>,
                            pending |-> Remove(pending, best[2])]
                      ELSE [result |-> None, pending |-> pending]

-----------------------------------------------------------------------------
(* AMRFleetManager *)

(* min(self.charging_stations, key=distance): the first station at the least
   distance *)
nearest_station(p) ==
    LET best == CHOOSE i \in 1..Len(charging_stations) :
                  /\ \A j \in 1..Len(charging_stations) :
                        distance_to(p, charging_stations[i])
                          <= distance_to(p, charging_stations[j])
                  /\ \A j \in 1..(i - 1) :
                        distance_to(p, charging_stations[j])
                          > distance_to(p, charging_stations[i])
    IN  charging_stations[best]

(* min(robot.max_battery, robot.battery_level + 20 * dt) *)
ChargedUncapped(battery_level, max_battery, dt) == battery_level + CHARGE_PER_DT * dt

Charged(battery_level, max_battery, dt) ==
    Min(max_battery, battery_level + CHARGE_PER_DT * dt)

(* battery_level >= max_battery * 0.9 *)
ChargedEnough(r) == r.battery_level * 10 >= r.max_battery * 9

(* An end of charging that sends the robot back to the task it holds *)
FinishChargingResuming(r) ==
    IF r.current_task # NoTask
    THEN [r EXCEPT !.status = "moving",
                   !.target_position = tasks[r.current_task].start_pos]
    ELSE [r EXCEPT !.status = "idle", !.target_position = None]

(* robot.status = RobotStatus.IDLE; robot.target_position = None *)
FinishCharging(r) == [r EXCEPT !.status = "idle", !.target_position = None]

(* The body of update_fleet's loop for one robot *)
UpdateRobot(r, dt) ==
    IF r.status = "moving" /\ r.target_position # None
    THEN LET m == move_towards_target(r, r.target_position, dt)
         IN  IF m.arrived
             THEN IF m.robot.current_task # NoTask
                  THEN IF m.robot.target_position = tasks[m.robot.current_task].start_pos
                       THEN [m.robot EXCEPT
                               !.target_position = tasks[m.robot.current_task].end_pos,
                               !.status = "working"]
                       ELSE complete_current_task(m.robot)
                  ELSE [m.robot EXCEPT !.status = "idle"]
             ELSE m.robot
    ELSE IF r.status = "working" /\ r.target_position # None
    THEN LET m == move_towards_target(r, r.target_position, dt)
         IN  IF m.arrived THEN complete_current_task(m.robot) ELSE m.robot
    ELSE IF r.status = "charging"
    THEN LET r1 == IF r.target_position = None
                   THEN [r EXCEPT !.target_position = nearest_station(r.position)]
                   ELSE r
             m == move_towards_target(r1, r1.target_position, dt)
         IN  IF m.arrived
             THEN LET r2 == [m.robot EXCEPT
                               !.battery_level = Charged(@, m.robot.max_battery, dt)]
                  IN  IF ChargedEnough(r2) THEN FinishCharging(r2) ELSE r2
             ELSE m.robot
    ELSE r

RECURSIVE SumCompleted(_, _)
SumCompleted(rs, n) ==
    IF n = 0 THEN 0 ELSE rs[n].tasks_completed + SumCompleted(rs, n - 1)

RECURSIVE Gcd(_, _)
Gcd(a, b) == IF b = 0 THEN a ELSE Gcd(b, a % b)

(* a / b as a fraction in lowest terms, b > 0 *)
Ratio(a, b) == <<a \div Gcd(a, b), b \div Gcd(a, b)>>

(* An efficiency that counts the Idle robots *)
EfficiencyIdleShare(rs) ==
    IF rs = <<>> THEN Ratio(0, 1)
    ELSE Ratio(100 * Cardinality({i \in 1..Len(rs) : rs[i].status = "idle"}), Len(rs))

(* (active_robots / len(self.robots)) * 100 if self.robots else 0 *)
Efficiency(rs) ==
    IF rs = <<>> THEN Ratio(0, 1)
    ELSE Ratio(100 * Cardinality({i \in 1..Len(rs) : rs[i].status # "idle"}), Len(rs))

(* The members of RobotStatus *)
RobotStatus == {"idle", "moving", "working", "charging", "maintenance"}

(* round(x, 2) of a fraction x >= 0, in 1/100: the nearest hundredth.  (No
   fraction the model forms lies halfway between two hundredths.) *)
Round2(x) == (x[1] * 200 + x[2]) \div (2 * x[2])

(* AMRFleetManager.get_fleet_status: the dictionary returned, but for
   average_battery.  total_tasks_completed and fleet_efficiency are the values
   the manager has stored; the rest is counted at the call. *)
get_fleet_status ==
    [total_robots |-> Len(robots),
     status_distribution |->
         [st \in RobotStatus |->
             Cardinality({i \in 1..Len(robots) : robots[i].status = st})],
     pending_tasks |-> Len(pending_tasks),
     total_tasks_completed |-> total_tasks_completed,
     fleet_efficiency |-> Round2(fleet_efficiency)]

-----------------------------------------------------------------------------
(* The fleet manager and what is called on it *)

(* AMRFleetManager.__init__, TaskScheduler.__init__ *)
Init ==
    /\ robots = <<>>
    /\ tasks = <<>>
    /\ pending_tasks = <<>>
    /\ total_tasks_completed = 0
    /\ fleet_efficiency = Ratio(0, 1)
    /\ probe = None

(* AMRFleetManager.add_robot, called with a Robot made for the call *)
add_robot(initial_pos, max_battery) ==
    /\ robots' = Append(robots, NewRobot(initial_pos, max_battery))
    /\ UNCHANGED <<tasks, pending_tasks, total_tasks_completed, fleet_efficiency, probe>>

(* TaskScheduler.add_task, called with a Task made for the call *)
add_task(start_pos, end_pos, priority) ==
    /\ tasks' = Append(tasks, NewTask(start_pos, end_pos, priority))
    /\ pending_tasks' = SortByPriority(Append(pending_tasks, Len(tasks) + 1), tasks')
    /\ UNCHANGED <<robots, total_tasks_completed, fleet_efficiency, probe>>

(* An assignment that does not write the task *)
MarkNothing(ts, t, i) == ts

(* task.assigned_robot = self.id, the task's side of Robot.assign_task *)
MarkAssigned(ts, t, i) == [ts EXCEPT ![t].assigned_robot = i]

(* AMRFleetManager.update_fleet: what the call writes *)
UpdateFleet(dt) ==
    LET a == assign_optimal_robot(pending_tasks, robots)
        assigned == IF a.result # None
                    THEN [robots EXCEPT ![a.result[1]] = assign_task(@, a.result[2])]
                    ELSE robots
        updated == [i \in 1..Len(robots) |-> UpdateRobot(assigned[i], dt)]
    IN  /\ pending_tasks' = a.pending
        /\ tasks' = IF a.result # None
                    THEN MarkAssigned(tasks, a.result[2], a.result[1])
                    ELSE tasks
        /\ robots' = updated
        /\ total_tasks_completed' = SumCompleted(updated, Len(updated))
        /\ fleet_efficiency' = Efficiency(updated)

(* AMRFleetManager.update_fleet *)
update_fleet(dt) == UpdateFleet(dt) /\ UNCHANGED probe

(* A stop that completes what the robots hold *)
emergency_stop_completing ==
    /\ robots' = [i \in 1..Len(robots) |->
                    [complete_current_task(robots[i]) EXCEPT !.status = "idle",
                                                             !.target_position = None]]
    /\ UNCHANGED <<tasks, pending_tasks, total_tasks_completed, fleet_efficiency, probe>>

(* AMRDashboard.emergency_stop, AMRControlPanel.emergency_stop *)
emergency_stop ==
    /\ robots' = [i \in 1..Len(robots) |->
                    [robots[i] EXCEPT !.status = "idle",
                                      !.target_position = None,
                                      !.current_task = NoTask]]
    /\ UNCHANGED <<tasks, pending_tasks, total_tasks_completed, fleet_efficiency, probe>>

(* A send-to-charge that takes the robot out of service *)
SendToMaintenance(r) ==
    IF r.battery_level < CHARGE_ALL_THRESHOLD
    THEN [r EXCEPT !.status = "maintenance", !.target_position = None]
    ELSE r

(* A send-to-charge that leaves the target in place *)
SendToChargeKeepingTarget(r) ==
    IF r.battery_level < CHARGE_ALL_THRESHOLD
    THEN [r EXCEPT !.status = "charging"]
    ELSE r

(* The body of charge_all's loop for one robot *)
SendToCharge(r) ==
    IF r.battery_level < CHARGE_ALL_THRESHOLD
    THEN [r EXCEPT !.status = "charging", !.target_position = None]
    ELSE r

(* AMRControlPanel.charge_all *)
charge_all ==
    /\ robots' = [i \in 1..Len(robots) |-> SendToCharge(robots[i])]
    /\ UNCHANGED <<tasks, pending_tasks, total_tasks_completed, fleet_efficiency, probe>>

(* AMRDashboard.update_speed *)
update_speed(val) ==
    /\ robots' = [i \in 1..Len(robots) |-> [robots[i] EXCEPT !.speed = val * 2]]
    /\ UNCHANGED <<tasks, pending_tasks, total_tasks_completed, fleet_efficiency, probe>>

Next ==
    \/ \E k \in RobotKinds : Len(robots) < MaxRobots /\ add_robot(k[1], k[2])
    \/ \E k \in TaskKinds, p \in Priorities :
          Len(tasks) < MaxTasks /\ add_task(k[1], k[2], p)
    \/ \E dt \in DtSet : update_fleet(dt)
    \/ emergency_stop
    \/ charge_all
    \/ \E val \in SliderVals : update_speed(val)

Spec == Init /\ [][Next]_vars

-----------------------------------------------------------------------------
(* The core left to its timer: after any run of Spec the commands stop and only
   update_fleet is called, once per frame of the dashboard's animation, again
   and again.  From the moment the commands stop, probe is the parity of the
   frame, so that every frame is a step even when the call changes nothing. *)

EvenFrame == <<"frame", 0>>
OddFrame == <<"frame", 1>>

commands_stop ==
    /\ probe = None
    /\ probe' = EvenFrame
    /\ UNCHANGED <<robots, tasks, pending_tasks, total_tasks_completed, fleet_efficiency>>

(* The animation shows its next frame *)
next_frame ==
    /\ probe \in {EvenFrame, OddFrame}
    /\ probe' = IF probe = EvenFrame THEN OddFrame ELSE EvenFrame

(* AMRDashboard.update_dashboard(frame), its call of update_fleet *)
update_dashboard == next_frame /\ \E dt \in DtSet : UpdateFleet(dt)

NextTicking ==
    \/ probe = None /\ Next
    \/ commands_stop
    \/ update_dashboard

(* The timer does not stop: a frame that can be shown is shown.  (Every frame
   of NextTicking is an update_dashboard step.) *)
SpecTicking == Init /\ [][NextTicking]_vars /\ WF_probe(next_frame)

-----------------------------------------------------------------------------
(* The core called with a dt that is not positive: after any run of Spec,
   update_fleet is called once with dt = 0 or dt = -20.  probe records the dt
   of that call. *)

NonPositiveDts == {0, -200}

(* fleet_manager.update_fleet(dt) with dt <= 0 *)
update_fleet_nonpositive(dt) ==
    /\ probe = None
    /\ UpdateFleet(dt)
    /\ probe' = <<"dt", dt>>

NextAnyDt ==
    \/ probe = None /\ Next
    \/ \E dt \in NonPositiveDts : update_fleet_nonpositive(dt)

SpecAnyDt == Init /\ [][NextAnyDt]_vars

-----------------------------------------------------------------------------
(* A TaskScheduler alone: add_task and assign_optimal_robot called in any
   order, with a list of two robots that the caller leaves as constructed *)

SchedPriorities == {1, 2, 3}

InitSched ==
    /\ robots = <<NewRobot(Pos(5, 5), 100000), NewRobot(Pos(45, 5), 25000)>>
    /\ tasks = <<>>
    /\ pending_tasks = <<>>
    /\ total_tasks_completed = 0
    /\ fleet_efficiency = Ratio(0, 1)
    /\ probe = None

(* TaskScheduler.assign_optimal_robot, as a call of its own *)
call_assign_optimal_robot ==
    /\ pending_tasks # <<>>
    /\ pending_tasks' = assign_optimal_robot(pending_tasks, robots).pending
    /\ UNCHANGED <<robots, tasks, total_tasks_completed, fleet_efficiency, probe>>

NextSched ==
    \/ \E k \in TaskKinds, p \in SchedPriorities :
          Len(tasks) < MaxSchedTasks /\ add_task(k[1], k[2], p)
    \/ call_assign_optimal_robot

SpecSched == InitSched /\ [][NextSched]_vars

-----------------------------------------------------------------------------
(* One robot stepped with move_towards_target toward a fixed target *)

(* <<start, target>>: along an axis (distances 10, 7, 40, 10.3 and 0.3), along
   a 3-4-5 diagonal (distance 20), and on the spot *)
MoveCases == {<<Pos(0, 0), Pos(10, 0)>>, <<Pos(0, 0), Pos(0, 7)>>,
              <<Pos(45, 5), Pos(5, 5)>>, <<Pos(0, 0), <<1030, 0>>>>,
              <<Pos(0, 0), <<30, 0>>>>, <<Pos(5, 5), Pos(17, 21)>>,
              <<Pos(5, 5), Pos(5, 5)>>}
MoveDts == {10, 25}
MoveBatteries == {100000, 6000}

InitMove ==
    /\ \E c \in MoveCases, b \in MoveBatteries, val \in SliderVals, dt \in MoveDts :
          /\ robots = <<[NewRobot(c[1], b) EXCEPT !.speed = val * 2]>>
          /\ probe = [start |-> c[1], target |-> c[2], dt |-> dt,
                      calls |-> 0, arrived |-> FALSE, refused |-> FALSE]
    /\ tasks = <<>>
    /\ pending_tasks = <<>>
    /\ total_tasks_completed = 0
    /\ fleet_efficiency = Ratio(0, 1)

(* robot.move_towards_target(target, dt) *)
call_move_towards_target ==
    LET m == move_towards_target(robots[1], probe.target, probe.dt)
    IN  /\ probe.calls < MaxMoveSteps
        /\ robots' = <<m.robot>>
        /\ probe' = [probe EXCEPT !.calls = @ + 1,
                                  !.arrived = m.arrived,
                                  !.refused = @ \/ robots[1].battery_level <= LOW_BATTERY]
        /\ UNCHANGED <<tasks, pending_tasks, total_tasks_completed, fleet_efficiency>>

NextMove == call_move_towards_target

SpecMove == InitMove /\ [][NextMove]_vars

-----------------------------------------------------------------------------
(* One robot and one task from the task's assignment on: a fleet manager with a
   full robot at its speed and one pending task is ticked with a fixed dt.  The
   first tick assigns the task.  probe counts the ticks and lists the statuses
   the robot has had between ticks. *)

(* <<robot position, task start, task end>>: starts at distance 10, 10.3, 0.3,
   0 and 20 (a 3-4-5 diagonal) *)
TripCases == {<<Pos(0, 0), Pos(10, 0), Pos(10, 7)>>,
              <<Pos(0, 0), <<1030, 0>>, Pos(0, 0)>>,
              <<Pos(0, 0), <<30, 0>>, Pos(10, 0)>>,
              <<Pos(5, 5), Pos(5, 5), Pos(45, 5)>>,
              <<Pos(5, 5), Pos(17, 21), Pos(5, 21)>>}

InitTrip ==
    /\ \E c \in TripCases, val \in SliderVals, dt \in MoveDts :
          /\ robots = <<[NewRobot(c[1], 100000) EXCEPT !.speed = val * 2]>>
          /\ tasks = <<NewTask(c[2], c[3], 1)>>
          /\ probe = [start |-> c[1], target |-> c[2], dt |-> dt,
                      ticks |-> 0, seen |-> <<"idle">>]
    /\ pending_tasks = <<1>>
    /\ total_tasks_completed = 0
    /\ fleet_efficiency = Ratio(0, 1)

(* fleet_manager.update_fleet(dt), counted *)
trip_tick ==
    /\ probe.ticks < MaxTripTicks
    /\ UpdateFleet(probe.dt)
    /\ probe' = [probe EXCEPT
                   !.ticks = @ + 1,
                   !.seen = IF robots'[1].status = robots[1].status
                            THEN @ ELSE Append(@, robots'[1].status)]

NextTrip == trip_tick

SpecTrip == InitTrip /\ [][NextTrip]_vars

-----------------------------------------------------------------------------
(* Properties *)

Robots == 1..Len(robots)
Tasks == 1..Len(tasks)
Pending == {pending_tasks[k] : k \in 1..Len(pending_tasks)}
Holders(t) == {i \in Robots : robots[i].current_task = t}
Eligible(r) == r.status = "idle" /\ r.battery_level > MIN_ASSIGN_BATTERY

(* C1: in every reachable state every robot's battery_level is at least 0 and
   at most its max_battery. *)
C1_BatteryInRange ==
    \A i \in Robots :
        /\ 0 <= robots[i].battery_level
        /\ robots[i].battery_level <= robots[i].max_battery

(* A robot that has driven, and so drained, is back at its full battery: it has
   charged at a station and the charge was capped. *)
C1_Witness ==
    \E i \in Robots :
        /\ robots[i].total_distance_traveled > 0
        /\ robots[i].battery_level = robots[i].max_battery
        /\ robots[i].status = "idle"

(* C2, as the spec states it: a task's assigned_robot is set if and only if
   exactly one robot holds the task as its current_task. *)
C2_AssignedIffHeld ==
    \A t \in Tasks :
        tasks[t].assigned_robot # 0 <=> Cardinality(Holders(t)) = 1

(* C2, amended: assigned_robot is unset exactly while the task is pending; once
   set it is never unset; and a robot that holds the task is the robot that
   assigned_robot names, so at most one robot holds it. *)
C2_AssignedOnceTaken ==
    /\ [](\A t \in Tasks :
            /\ tasks[t].assigned_robot = 0 <=> t \in Pending
            /\ \A i \in Holders(t) : tasks[t].assigned_robot = i)
    /\ [][\A t \in Tasks :
            tasks[t].assigned_robot # 0 => tasks'[t].assigned_robot = tasks[t].assigned_robot]_vars

(* A task that was assigned and is held by no robot any more (completed or
   dropped), its assigned_robot still set. *)
C2_Witness ==
    \E t \in Tasks : tasks[t].assigned_robot # 0 /\ Holders(t) = {}

(* C3: a robot has a current_task only if it is Moving or Working, and an Idle
   robot has no current_task and no target_position. *)
C3_TaskOnlyWhenActive ==
    \A i \in Robots :
        /\ robots[i].current_task # NoTask => robots[i].status \in {"moving", "working"}
        /\ robots[i].status = "idle" =>
              robots[i].current_task = NoTask /\ robots[i].target_position = None

(* C4: no two distinct robots have the same task as current_task. *)
C4_ExclusiveOwner ==
    \A i, j \in Robots :
        i # j /\ robots[i].current_task # NoTask =>
            robots[i].current_task # robots[j].current_task

(* Two robots hold a task each at the same time. *)
C4_Witness ==
    \E i, j \in Robots :
        /\ i # j
        /\ robots[i].current_task # NoTask
        /\ robots[j].current_task # NoTask

(* The tasks that go from unassigned to assigned in a step *)
NewlyAssigned ==
    {t \in Tasks : tasks[t].assigned_robot = 0 /\ tasks'[t].assigned_robot # 0}

(* The robots that hold, after a step, a task they did not hold before it *)
NewHolders ==
    {i \in Robots : robots'[i].current_task # NoTask
                    /\ robots'[i].current_task # robots[i].current_task}

(* s without its k-th element *)
Without(s, k) == SubSeq(s, 1, k - 1) \o SubSeq(s, k + 1, Len(s))

(* C5: a step (an update_fleet call above all) assigns at most one task: the
   pending list shrinks by at most one and at most one robot comes to hold a new
   task, and then it was Idle; the task assigned leaves the pending list in that
   same step; and a task that is not in the pending list is not in it after any
   step. *)
C5_OneAssignmentPerTick ==
    [][/\ Len(pending_tasks') >= Len(pending_tasks) - 1
       /\ Cardinality(NewHolders) <= 1
       /\ Cardinality(NewlyAssigned) <= 1
       /\ \A i \in NewHolders : robots[i].status = "idle"
       /\ \A t \in NewlyAssigned : t \in Pending /\ t \notin Pending'
       /\ \A t \in Tasks : t \notin Pending => t \notin Pending']_vars

(* One task has been assigned and is on its way, while another is still pending
   and a second robot is idle and fit to take it. *)
C5_Witness ==
    \E t, u \in Tasks, i, j \in Robots :
        /\ robots[i].current_task = t /\ robots[i].status = "moving"
        /\ u \in Pending
        /\ i # j /\ Eligible(robots[j])

(* C6: the pending list is sorted by non-increasing priority, and tasks of equal
   priority are in the order in which they were added (a task's index is its
   rank among the add_task calls). *)
C6_PendingSorted ==
    \A a, b \in 1..Len(pending_tasks) :
        a < b =>
            \/ tasks[pending_tasks[a]].priority > tasks[pending_tasks[b]].priority
            \/ /\ tasks[pending_tasks[a]].priority = tasks[pending_tasks[b]].priority
               /\ pending_tasks[a] < pending_tasks[b]

(* Three tasks are pending after one was taken out, two of them of one priority
   and one of another, and the last one added is not the last of the list. *)
C6_Witness ==
    /\ Len(pending_tasks) = 3
    /\ Len(tasks) = 4
    /\ pending_tasks[3] # 4
    /\ \E a, b \in 1..3 :
          a # b /\ tasks[pending_tasks[a]].priority = tasks[pending_tasks[b]].priority
    /\ \E a, b \in 1..3 :
          tasks[pending_tasks[a]].priority # tasks[pending_tasks[b]].priority

(* distance(robot.position, task.start) + (100 - battery) * 0.1, in 1/10000 *)
C7_Cost(i, t) ==
    distance_to(robots[i].position, tasks[t].start_pos) * 100
      + (100000 - robots[i].battery_level)

(* C7: when a task is assigned to a robot, the robot was Idle with battery > 20,
   the task was pending, and no pair of an eligible robot and a pending task had
   a lower cost; the cost does not read the priority. *)
C7_MinimalCostPair ==
    [][\A t \in NewlyAssigned :
          LET i == tasks'[t].assigned_robot
          IN  /\ i \in Robots
              /\ Eligible(robots[i])
              /\ t \in Pending
              /\ robots'[i].current_task = t
              /\ \A j \in Robots, u \in Pending :
                    Eligible(robots[j]) => C7_Cost(i, t) <= C7_Cost(j, u)]_vars

(* A task is held by the robot it was assigned to while a task of higher
   priority is still pending: the cost, not the priority, chose. *)
C7_Witness ==
    \E t, u \in Tasks, i \in Robots :
        /\ robots[i].current_task = t /\ robots[i].status = "moving"
        /\ tasks[t].assigned_robot = i
        /\ u \in Pending
        /\ tasks[u].priority > tasks[t].priority

(* C8: assign_optimal_robot, called in any reachable state, returns None if and
   only if the pending list is empty or no robot is Idle with battery > 20; then
   it leaves the pending list as it is; and when it returns a pair, the pending
   list loses exactly that task.  (It has no statement that writes a robot.) *)
C8_NoneIffNoMatch ==
    LET a == assign_optimal_robot(pending_tasks, robots)
    IN  /\ a.result = None <=>
              (pending_tasks = <<>> \/ ~ \E i \in Robots : Eligible(robots[i]))
        /\ a.result = None => a.pending = pending_tasks
        /\ a.result # None =>
              \E k \in 1..Len(pending_tasks) :
                  /\ pending_tasks[k] = a.result[2]
                  /\ a.pending = Without(pending_tasks, k)

(* Tasks are pending and robots exist, none of them fit to take one: the call
   returns None with work waiting. *)
C8_Witness ==
    /\ pending_tasks # <<>>
    /\ Robots # {}
    /\ ~ \E i \in Robots : Eligible(robots[i])
    /\ \E i \in Robots : robots[i].status = "idle"
    /\ assign_optimal_robot(pending_tasks, robots).result = None

(* The experiment of SpecMove: its initial distance, the distance one call may
   cover, and ceil(D / (speed * dt)) *)
ProbeDistance == distance_to(probe.start, probe.target)
ProbeStride == robots[1].speed * probe.dt
ProbeBound == (ProbeDistance + ProbeStride - 1) \div ProbeStride

(* C9: a robot stepped toward a fixed target, no call refused for battery <= 5,
   is within 0.5 of the target once ceil(D / (speed * dt)) calls are made; it is
   always on the segment from its start to the target (it never overshoots); and
   when a call reports arrival its position is the target. *)
C9_ArrivesWithinBound ==
    /\ (~ probe.refused /\ probe.calls >= ProbeBound) =>
          distance_to(robots[1].position, probe.target) < ARRIVAL_TOLERANCE
    /\ distance_to(probe.start, robots[1].position)
         + distance_to(robots[1].position, probe.target) = ProbeDistance
    /\ probe.arrived => robots[1].position = probe.target

(* After several calls, the last of them shorter than a full stride, the call
   after the bound reports arrival. *)
C9_Witness ==
    /\ probe.arrived
    /\ ~ probe.refused
    /\ ProbeBound >= 3
    /\ probe.calls = ProbeBound + 1
    /\ ProbeDistance % ProbeStride # 0
    /\ robots[1].position = probe.target

(* C10: in any step a robot's tasks_completed stays or grows by exactly 1; it
   grows only for a Working robot that held a task, which is then Idle with no
   current_task and no target_position; it does grow in an update_fleet call
   that finds a Working robot with a task at its target and battery above 5;
   and complete_current_task leaves a robot with no current task as it is. *)
C10_CompletionCountsOnce ==
    /\ [][\A i \in Robots :
            \/ robots'[i].tasks_completed = robots[i].tasks_completed
            \/ /\ robots'[i].tasks_completed = robots[i].tasks_completed + 1
               /\ robots[i].status = "working"
               /\ robots[i].current_task # NoTask
               /\ robots'[i].current_task = NoTask
               /\ robots'[i].target_position = None
               /\ robots'[i].status = "idle"]_vars
    /\ [][(\E dt \in DtSet : update_fleet(dt)) =>
            \A i \in Robots :
                (/\ robots[i].status = "working"
                 /\ robots[i].current_task # NoTask
                 /\ robots[i].battery_level > LOW_BATTERY
                 /\ distance_to(robots[i].position, robots[i].target_position)
                       < ARRIVAL_TOLERANCE)
                => robots'[i].tasks_completed = robots[i].tasks_completed + 1]_vars
    /\ [](\A i \in Robots :
            robots[i].current_task = NoTask =>
                complete_current_task(robots[i]) = robots[i])

(* A robot has completed a task and is Idle at the task's end. *)
C10_Witness ==
    \E i \in Robots, t \in Tasks :
        /\ robots[i].tasks_completed = 1
        /\ robots[i].status = "idle"
        /\ robots[i].current_task = NoTask
        /\ tasks[t].assigned_robot = i
        /\ robots[i].position = tasks[t].end_pos

(* The targets a caller passes to move_towards_target *)
Targets ==
    {charging_stations[k] : k \in 1..Len(charging_stations)}
      \cup {tasks[t].start_pos : t \in Tasks} \cup {tasks[t].end_pos : t \in Tasks}

(* C11: move_towards_target on a robot whose battery is <= 5, exactly 5
   included, changes nothing of the robot but its status, which becomes
   Charging, and returns False; so a Moving or Working robot with a target and
   battery <= 5 is, after an update_fleet call, where it was, with the battery,
   distance travelled, task and target it had, and Charging. *)
C11_LowBatteryRefusesMove ==
    /\ [](\A i \in Robots, target \in Targets, dt \in DtSet :
            robots[i].battery_level <= LOW_BATTERY =>
                LET m == move_towards_target(robots[i], target, dt)
                IN  /\ ~ m.arrived
                    /\ m.robot = [robots[i] EXCEPT !.status = "charging"]
                    /\ m.robot.position = robots[i].position
                    /\ m.robot.battery_level = robots[i].battery_level
                    /\ m.robot.total_distance_traveled
                          = robots[i].total_distance_traveled)
    /\ [][(\E dt \in DtSet : update_fleet(dt)) =>
            \A i \in Robots :
                (/\ robots[i].status \in {"moving", "working"}
                 /\ robots[i].target_position # None
                 /\ robots[i].battery_level <= LOW_BATTERY)
                => robots'[i] = [robots[i] EXCEPT !.status = "charging"]]_vars

(* A robot refused at a battery of exactly 5 on its way to a task's end: it is
   Charging short of the target it still has. *)
C11_Witness ==
    \E i \in Robots :
        /\ robots[i].status = "charging"
        /\ robots[i].battery_level = LOW_BATTERY
        /\ robots[i].current_task # NoTask
        /\ robots[i].target_position = tasks[robots[i].current_task].end_pos
        /\ robots[i].position # robots[i].target_position

Stations == {charging_stations[k] : k \in 1..Len(charging_stations)}

(* The station a Charging robot drives to in the next update_fleet call: its
   target, or the nearest station when it has no target *)
StationOf(r) ==
    IF r.target_position = None THEN nearest_station(r.position) ELSE r.target_position

(* A Charging robot standing at the station it drives to *)
AtStation(r) ==
    /\ r.status = "charging"
    /\ StationOf(r) \in Stations
    /\ distance_to(r.position, StationOf(r)) < ARRIVAL_TOLERANCE

(* C12: in an update_fleet call a Charging robot at its charging station gains
   20 * dt battery, capped at max_battery, and is Idle with no target after the
   call if that battery is at least 90% of max_battery, still Charging if not;
   and in no step but an emergency stop does a Charging robot become Idle with
   a battery below 90% of max_battery. *)
C12_ChargesAtStation ==
    /\ [][\A dt \in DtSet : update_fleet(dt) =>
            \A i \in Robots :
                AtStation(robots[i]) =>
                    /\ robots'[i].battery_level
                          = Min(robots[i].max_battery,
                                robots[i].battery_level + CHARGE_PER_DT * dt)
                    /\ IF robots'[i].battery_level * 10 >= robots[i].max_battery * 9
                       THEN robots'[i].status = "idle"
                            /\ robots'[i].target_position = None
                       ELSE robots'[i].status = "charging"]_vars
    /\ [][\A i \in Robots :
            (robots[i].status = "charging" /\ robots'[i].status = "idle")
            => \/ robots'[i].battery_level * 10 >= robots[i].max_battery * 9
               \/ emergency_stop]_vars

(* The number of robots of rs that are not Idle, and the sum of their
   tasks_completed *)
NotIdle(rs) == Cardinality({i \in 1..Len(rs) : rs[i].status # "idle"})

RECURSIVE TotalCompleted(_)
TotalCompleted(rs) ==
    IF rs = <<>> THEN 0 ELSE Head(rs).tasks_completed + TotalCompleted(Tail(rs))

(* The fleet of the spec's example: one Moving, one Working and two Idle *)
ExampleFleet ==
    LET r == NewRobot(Pos(5, 5), 100000)
    IN  <<[r EXCEPT !.status = "moving"], [r EXCEPT !.status = "working"], r, r>>

(* C13: after every update_fleet call fleet_efficiency is 100 * (robots not
   Idle) / (robots), counted on the robots as the call leaves them, and 0 for
   an empty fleet; total_tasks_completed is the sum of the robots'
   tasks_completed; a fleet of one Moving, one Working and two Idle gives 50. *)
C13_MetricsAfterTick ==
    /\ [][(\E dt \in DtSet : update_fleet(dt)) =>
            /\ fleet_efficiency'[2] > 0
            /\ fleet_efficiency'[1] * Len(robots')
                  = 100 * NotIdle(robots') * fleet_efficiency'[2]
            /\ robots' = <<>> => fleet_efficiency'[1] = 0
            /\ total_tasks_completed' = TotalCompleted(robots')]_vars
    /\ [](Efficiency(ExampleFleet) = Ratio(50, 1))

(* A tick has left a fleet of two with one robot at work and one Idle that has
   completed a task: efficiency 50 and one task completed. *)
C13_Witness ==
    /\ Len(robots) = 2
    /\ NotIdle(robots) = 1
    /\ fleet_efficiency = Ratio(50, 1)
    /\ total_tasks_completed = 1
    /\ TotalCompleted(robots) = 1

(* C14: an emergency stop, in whatever state it is called, leaves every robot
   Idle with no target_position and no current_task, and changes nothing else
   of a robot (tasks_completed, position, battery); the pending list and the
   tasks are as before, so a task a robot held is neither counted as completed
   nor pending again. *)
C14_EmergencyStopFrame ==
    [][emergency_stop =>
          /\ Len(robots') = Len(robots)
          /\ \A i \in Robots :
                /\ robots'[i].status = "idle"
                /\ robots'[i].target_position = None
                /\ robots'[i].current_task = NoTask
                /\ robots'[i].tasks_completed = robots[i].tasks_completed
                /\ robots'[i].position = robots[i].position
                /\ robots'[i].battery_level = robots[i].battery_level
                /\ robots[i].current_task # NoTask =>
                      robots[i].current_task \notin Pending'
          /\ pending_tasks' = pending_tasks
          /\ tasks' = tasks
          /\ total_tasks_completed' = total_tasks_completed]_vars

(* A robot stopped on its way: Idle between the start and the end of the task
   that was assigned to it, which is not pending and was not completed. *)
C14_Witness ==
    \E i \in Robots, t \in Tasks :
        /\ tasks[t].assigned_robot = i
        /\ t \notin Pending
        /\ robots[i].status = "idle"
        /\ robots[i].current_task = NoTask
        /\ robots[i].target_position = None
        /\ robots[i].tasks_completed = 0
        /\ robots[i].position \notin {tasks[t].start_pos, tasks[t].end_pos}
        /\ robots[i].position \notin Stations
        /\ robots[i].total_distance_traveled > 0

(* Robots at battery 50, just below 90, at 90 and at 100, one Idle and one
   Moving with a target each *)
ExampleBatteries == {50000, 89999, 90000, 100000}
ExampleRobots ==
    {[NewRobot(Pos(5, 5), 100000) EXCEPT !.battery_level = b] : b \in ExampleBatteries}
      \cup {[NewRobot(Pos(5, 5), 100000) EXCEPT !.battery_level = b,
                                                !.status = "moving",
                                                !.target_position = Pos(45, 5)]
              : b \in ExampleBatteries}

(* C15: charge_all, whose threshold is 90, leaves every robot with battery
   below 90 Charging with no target_position, and leaves the status and the
   target_position of every other robot, one at exactly 90 included, as they
   were; a fleet with all batteries at 50 is all Charging with no target. *)
C15_ChargeAllBelowThreshold ==
    /\ [][charge_all =>
            /\ Len(robots') = Len(robots)
            /\ \A i \in Robots :
                  IF robots[i].battery_level < 90000
                  THEN /\ robots'[i].status = "charging"
                       /\ robots'[i].target_position = None
                  ELSE /\ robots'[i].status = robots[i].status
                       /\ robots'[i].target_position = robots[i].target_position]_vars
    /\ [](\A r \in ExampleRobots :
            IF r.battery_level < 90000
            THEN SendToCharge(r) = [r EXCEPT !.status = "charging",
                                             !.target_position = None]
            ELSE SendToCharge(r) = r)

(* A robot below 90 that held a task is Charging with no target, next to a
   robot at 90 or above that is still Moving to its target. *)
C15_Witness ==
    \E i, j \in Robots :
        /\ robots[i].battery_level < 90000
        /\ robots[i].status = "charging"
        /\ robots[i].target_position = None
        /\ robots[i].current_task # NoTask
        /\ robots[j].battery_level >= 90000
        /\ robots[j].status = "moving"
        /\ robots[j].target_position # None

(* C16: no robot ever has the status Maintenance; every robot is Idle, Moving,
   Working or Charging, whatever ticks, assignments, emergency stops,
   charge-alls and speed changes have happened. *)
C16_NeverMaintenance ==
    \A i \in Robots :
        /\ robots[i].status # "maintenance"
        /\ robots[i].status \in {"idle", "moving", "working", "charging"}

(* A robot that has completed a task is at work again, at a changed speed,
   while another is Charging. *)
C16_Witness ==
    \E i, j \in Robots :
        /\ robots[i].tasks_completed > 0
        /\ robots[i].status \in {"moving", "working"}
        /\ robots[i].speed # DEFAULT_SPEED
        /\ robots[j].status = "charging"

(* Robot i is Charging and only update_fleet will be called *)
ChargingUnderTimer(i) ==
    probe # None /\ i \in Robots /\ robots[i].status = "charging"

(* Robot i is Idle with a battery of at least 90% of its max_battery *)
RechargedIdle(i) ==
    /\ i \in Robots
    /\ robots[i].status = "idle"
    /\ robots[i].battery_level * 10 >= robots[i].max_battery * 9

(* C17: once only update_fleet is called, every robot that is Charging, sent
   there by charge_all or by a battery of 5 or less, is eventually Idle with a
   battery of at least 90% of its max_battery. *)
C17_ChargingEndsIdle ==
    \A i \in 1..MaxRobots : ChargingUnderTimer(i) ~> RechargedIdle(i)

(* C18: after an update_fleet call a robot that was Charging before the call
   and still is has a charging station as target_position, the station nearest
   to where it was if it had no target before the call; so the task target of a
   robot that a battery of 5 or less made Charging is replaced by a station in
   the tick that follows. *)
C18_ChargingTargetsStation ==
    [][(\E dt \in DtSet : update_fleet(dt)) =>
          \A i \in Robots :
              (robots[i].status = "charging" /\ robots'[i].status = "charging")
              => /\ robots'[i].target_position \in Stations
                 /\ robots[i].target_position = None =>
                       robots'[i].target_position = nearest_station(robots[i].position)]_vars

(* Task t is out of work: it was assigned, is not pending, and a robot that
   still holds it is Charging or Idle *)
Dropped(t) ==
    /\ tasks[t].assigned_robot # 0
    /\ t \notin Pending
    /\ \A i \in Holders(t) : robots[i].status \in {"charging", "idle"}

(* C19: a task its robot holds while Charging is abandoned for good.  The
   robot that holds a task when it becomes Charging keeps it, Charging; and
   from a state where a task is not pending and its holder, if any, is Charging
   or Idle, no step completes the task (its holder's tasks_completed does not
   grow), puts it back in the pending list, or leaves a robot Moving or Working
   with it. *)
C19_AbandonedForGood ==
    /\ [][\A i \in Robots :
            (/\ robots[i].current_task # NoTask
             /\ robots[i].status # "charging"
             /\ robots'[i].status = "charging")
            => /\ robots'[i].current_task = robots[i].current_task
               /\ Dropped(robots[i].current_task)']_vars
    /\ [][\A t \in Tasks :
            Dropped(t) =>
                /\ Dropped(t)'
                /\ \A i \in Holders(t) :
                      robots'[i].tasks_completed = robots[i].tasks_completed]_vars

(* A robot that has recharged is Idle and still holds the task it went to
   charge with, which is neither pending nor completed. *)
C19_Witness ==
    \E i \in Robots, t \in Tasks :
        /\ tasks[t].assigned_robot = i
        /\ t \notin Pending
        /\ robots[i].current_task = t
        /\ robots[i].status = "idle"
        /\ robots[i].battery_level * 10 >= robots[i].max_battery * 9
        /\ robots[i].tasks_completed = 0

(* C20, as the spec states it: ceil(D / (speed * dt)) ticks after the task was
   assigned (the tick that assigns it counted), the robot is at the task's
   start and has gone from Moving to Working, with the task's end as target. *)
C20_WorkingAtBound ==
    (probe.ticks = ProbeBound /\ probe.ticks >= 1) =>
        /\ robots[1].position = probe.target
        /\ robots[1].status = "working"
        /\ robots[1].target_position = tasks[1].end_pos

(* The distance to the task's start that is left when the last of the
   ceil(D / (speed * dt)) ticks begins *)
LastHop == ProbeDistance - (ProbeBound - 1) * ProbeStride

(* C20, amended: the robot is at the task's start after exactly
   ceil(D / (speed * dt)) ticks, the assigning tick counted, and not before; it
   is Working with the task's end as target after that tick only if the tick
   began less than 0.5 from the start, and is still Moving otherwise; one tick
   later it is Working in either case.  The task is completed only at its end,
   after the robot has been Moving (unless the assigning tick itself arrived)
   and then Working, in that order. *)
C20_AtStartThenWorking ==
    /\ probe.ticks < ProbeBound => robots[1].position # probe.target
    /\ probe.ticks = ProbeBound => robots[1].position = probe.target
    /\ (probe.ticks = ProbeBound /\ probe.ticks >= 1) =>
          IF LastHop < ARRIVAL_TOLERANCE
          THEN robots[1].status = "working"
               /\ robots[1].target_position = tasks[1].end_pos
          ELSE robots[1].status = "moving"
               /\ robots[1].target_position = tasks[1].start_pos
    /\ probe.ticks = ProbeBound + 1 =>
          /\ robots[1].status = "working"
          /\ robots[1].target_position = tasks[1].end_pos
          /\ robots[1].current_task = 1
    /\ \/ /\ robots[1].tasks_completed = 0
          /\ probe.seen \in {<<"idle">>, <<"idle", "moving">>, <<"idle", "working">>,
                              <<"idle", "moving", "working">>}
       \/ /\ robots[1].tasks_completed = 1
          /\ probe.seen \in {<<"idle", "moving", "working", "idle">>,
                              <<"idle", "working", "idle">>}
          /\ robots[1].position = tasks[1].end_pos

(* The spec's scenario, one tick on: the robot that started at (0,0) with speed
   2 and dt 1 is at the start (10,0) and Working after 6 ticks, having been
   Moving there after 5. *)
C20_Witness ==
    /\ probe.start = Pos(0, 0)
    /\ probe.target = Pos(10, 0)
    /\ probe.dt = 10
    /\ robots[1].speed = 20
    /\ probe.ticks = 6
    /\ ProbeBound = 5
    /\ robots[1].position = Pos(10, 0)
    /\ robots[1].status = "working"
    /\ probe.seen = <<"idle", "moving", "working">>

(* C21: an update_fleet call with dt <= 0 changes nothing: every robot has
   the position, battery, status, target_position and current_task it had, and
   the pending list is as it was; so no robot is farther from its target and no
   battery is outside 0 .. max_battery after the call. *)
C21_NonPositiveDtNoOp ==
    /\ [][(\E dt \in NonPositiveDts : update_fleet_nonpositive(dt)) =>
            /\ pending_tasks' = pending_tasks
            /\ \A i \in Robots :
                  /\ robots'[i].position = robots[i].position
                  /\ robots'[i].battery_level = robots[i].battery_level
                  /\ robots'[i].status = robots[i].status
                  /\ robots'[i].target_position = robots[i].target_position
                  /\ robots'[i].current_task = robots[i].current_task]_vars
    /\ [](\A i \in Robots :
            /\ 0 <= robots[i].battery_level
            /\ robots[i].battery_level <= robots[i].max_battery)

(* C22: in every reachable state, also right after an emergency stop, a
   charge_all or an add_robot, get_fleet_status returns an efficiency equal to
   100 * (robots not Idle) / (robots) as its own status_distribution counts
   them (0 for an empty fleet), and a total_tasks_completed equal to the sum of
   the robots' tasks_completed. *)
C22_StatusIsCurrent ==
    LET st == get_fleet_status
        active == st.total_robots - st.status_distribution["idle"]
    IN  /\ st.fleet_efficiency
              = IF st.total_robots = 0 THEN 0
                ELSE Round2(<<100 * active, st.total_robots>>)
        /\ st.total_tasks_completed = TotalCompleted(robots)

(* Robot i is the robot a task is assigned to in the step *)
Selected(i) == \E t \in NewlyAssigned : tasks'[t].assigned_robot = i

(* C23: an update_fleet call leaves every Idle robot that it does not assign a
   task to exactly as it was (position, battery, status, target_position,
   current_task, tasks_completed and the rest); and it assigns no task to an
   Idle robot with battery <= 20, which is therefore the same Idle robot after
   the call, and so after any number of calls, whatever is pending. *)
C23_IdleUntouched ==
    [][(\E dt \in DtSet : update_fleet(dt)) =>
          \A i \in Robots :
              /\ (robots[i].status = "idle" /\ ~ Selected(i)) =>
                    /\ robots'[i].position = robots[i].position
                    /\ robots'[i].battery_level = robots[i].battery_level
                    /\ robots'[i].status = "idle"
                    /\ robots'[i].target_position = robots[i].target_position
                    /\ robots'[i].current_task = robots[i].current_task
                    /\ robots'[i].tasks_completed = robots[i].tasks_completed
                    /\ robots'[i] = robots[i]
              /\ (robots[i].status = "idle" /\ robots[i].battery_level <= 20000) =>
                    /\ ~ Selected(i)
                    /\ robots'[i] = robots[i]]_vars

(* A tick has passed over the only robot, Idle with a battery of 20 or less
   that it has driven down, while a task is pending: the efficiency stored is
   0 and the task is still waiting. *)
C23_Witness ==
    /\ Len(robots) = 1
    /\ robots[1].status = "idle"
    /\ robots[1].battery_level <= 20000
    /\ robots[1].total_distance_traveled > 0
    /\ robots[1].current_task = NoTask
    /\ pending_tasks # <<>>
    /\ fleet_efficiency = Ratio(0, 1)
    /\ \E t \in Tasks : tasks[t].assigned_robot = 1

=============================================================================
